---------------------------- MODULE Spec2Model ----------------------------
(***************************************************************************)
(* Model of src/templates/generate-config.py: the generator of the CI      *)
(* pipeline definition (test matrix + per-application custom steps).       *)
(*                                                                         *)
(* Text (command output, names, versions) is a sequence of one-character   *)
(* strings, so that strip / split / substring search are computed as       *)
(* Python computes them.  A path is a record [dir, name]: the fixed root   *)
(* it lies under and the component joined to it.                           *)
(*                                                                         *)
(* The repository under version control is the environment: `tree` gives   *)
(* the content of the working tree at every revision, `head` is the        *)
(* revision currently checked out.                                         *)
(***************************************************************************)
EXTENDS Naturals, Sequences, FiniteSets

(***************************************************************************)
(* Program constants (module level of generate-config.py)                  *)
(***************************************************************************)
examples_path == <<"e", "x", "a", "m", "p", "l", "e", "s">>
test_suites_path == <<"t", "e", "s", "t">>
main_branch == <<"m", "a", "i", "n">>
entrypoint_name ==
  <<"t", "e", "s", "t", "_", "e", "n", "t", "r", "y", "p", "o", "i", "n", "t", ".", "s", "h">>
error_marker == <<"e", "r", "r", "o", "r", ":">>
matrix_parameter == "<< parameters.example-app-name >>"

(***************************************************************************)
(* Python string primitives                                                *)
(***************************************************************************)
\* str.isspace for the characters a string of the model can hold: the ASCII
\* white space (space, \t, \n, \r, VT, FF), the separators FS GS RS US, NEL
\* the no-break space and the Ogham space mark
IsSpace(c) ==
  c \in {" ", "\t", "\n", "\r", "\f", "", "", "", "", "", "", " ", " "}

RECURSIVE lstrip(_)
lstrip(s) == IF s # <<>> /\ IsSpace(Head(s)) THEN lstrip(Tail(s)) ELSE s

RECURSIVE rstrip(_)
rstrip(s) ==
  IF s # <<>> /\ IsSpace(s[Len(s)]) THEN rstrip(SubSeq(s, 1, Len(s) - 1)) ELSE s

\* str.strip()
strip(s) == rstrip(lstrip(s))

\* str.split(sep) for a one-character separator: "" splits to [""]
RECURSIVE split(_, _)
split(s, sep) ==
  IF \A i \in 1..Len(s) : s[i] # sep
  THEN <<s>>
  ELSE LET k == CHOOSE i \in 1..Len(s) : s[i] = sep /\ \A j \in 1..(i - 1) : s[j] # sep
       IN  <<SubSeq(s, 1, k - 1)>> \o split(SubSeq(s, k + 1, Len(s)), sep)

\* sub in s
contains(s, sub) ==
  \E i \in 1..(Len(s) + 1 - Len(sub)) : SubSeq(s, i, i + Len(sub) - 1) = sub

\* the pipe read in text mode: every "\r\n" and every lone "\r" becomes "\n"
RECURSIVE universal_newlines(_)
universal_newlines(raw) ==
  IF \A k \in 1..Len(raw) : raw[k] # "\r" THEN raw
  ELSE IF Head(raw) # "\r" THEN <<Head(raw)>> \o universal_newlines(Tail(raw))
  ELSE IF Len(raw) >= 2 /\ raw[2] = "\n"
       THEN <<"\n">> \o universal_newlines(SubSeq(raw, 3, Len(raw)))
       ELSE <<"\n">> \o universal_newlines(Tail(raw))

\* subprocess.getoutput: the command's stdout and stderr with the newlines
\* translated, one trailing newline removed
getoutput(raw) ==
  LET data == universal_newlines(raw)
  IN IF data # <<>> /\ data[Len(data)] = "\n" THEN SubSeq(data, 1, Len(data) - 1) ELSE data

\* what a command printing one line per element writes
RECURSIVE lines(_)
lines(names) ==
  IF names = <<>> THEN <<>> ELSE Head(names) \o <<"\n">> \o lines(Tail(names))


(***************************************************************************)
(* The repository: names, revisions and working-tree content               *)
(***************************************************************************)
App1 == <<"a", "p", "p", "1">>
App2 == <<"a", "p", "p", "2">>
\* the directories examples/ can hold
AppPool == <<App1, App2>>
AppNames == {AppPool[k] : k \in 1..Len(AppPool)}
\* the orders Path.iterdir can yield them in: the order of the directory
\* entries, which the file system decides
IterdirOrders == {<<App1, App2>>, <<App2, App1>>}

Api == <<"a", "p", "i">>
Smoke == <<"s", "m", "o", "k", "e">>
\* the test-suite directories, in the order ls prints them
SuitePool == <<Api, Smoke>>
SuiteNames == {SuitePool[k] : k \in 1..Len(SuitePool)}

V1 == <<"v", "1", ".", "0", ".", "0">>
\* the tags of the repository that match the version pattern
TagPool == <<V1>>
TagNames == {TagPool[k] : k \in 1..Len(TagPool)}
Revs == {main_branch} \cup TagNames

\* a directory entry: missing, a directory without the entrypoint script,
\* or a directory holding it
EntryStates == {"none", "dir", "valid"}

VARIABLES
  tree,               \* revision -> content of the working tree at that revision
  tags_matched,       \* the tags `git tag -l | grep` prints, in its order
  failing,            \* the versions whose checkout git refuses
  subject,            \* tag -> the subject line of the tagged commit
  tip_tags,           \* the tags that are on the tip commit of main
  local_change,       \* a tracked file carries a local modification
  iterdir_order,         \* the order Path.iterdir yields the entries of examples/ in
  base,               \* the document in base-generated-config.yaml
  head,               \* the revision the working tree is at
  start_head,         \* the revision the working tree was at when the run began
  pc,                 \* position in the script
  circle_config,      \* the document being assembled
  available_examples, \* line 148
  available_versions, \* lines 149-150
  pairs,              \* itertools.product(example_apps, versions)
  i,                  \* position of the matrix loop in pairs
  test_executions,    \* accumulator of list_test_executions
  calls,              \* the calls of list_test_suites_for_version made by this run
  j,                  \* position of append_custom_yamls in example_apps
  generated,          \* the document dumped by this run (generated.yml)
  run,                \* number of the run in progress
  previous            \* the document dumped by the run before

env == <<tree, tags_matched, failing, subject, tip_tags, local_change, iterdir_order, base>>
vars == <<tree, tags_matched, failing, subject, tip_tags, local_change, iterdir_order, base,
          head,
          start_head, pc, circle_config,
          available_examples, available_versions, pairs, i, test_executions,
          calls, j, generated, run, previous>>

(***************************************************************************)
(* Filesystem predicates, evaluated on the content t of the working tree   *)
(***************************************************************************)
\* os.path.join(root, name)
join(root, name) == [dir |-> root, name |-> name]

\* git keeps no empty directory: examples/ and test/ are in the working tree
\* when a file is tracked below them
examples_exists(t) == \E n \in AppNames : t.apps[n] # "none"
test_exists(t) == t.root_valid \/ \E n \in SuiteNames : t.suites[n] # "none"

\* os.path.isdir(path)
isdir(t, path) ==
  IF path.dir = examples_path
  THEN path.name \in AppNames /\ t.apps[path.name] # "none"
  ELSE IF path.name = <<>> THEN test_exists(t)
       ELSE path.name \in SuiteNames /\ t.suites[path.name] # "none"

\* os.path.exists(path)
exists(t, path) ==
  isdir(t, path)
  \/ (path.dir = test_suites_path /\ path.name = entrypoint_name /\ t.root_valid)

\* os.listdir(path) has test_entrypoint.sh, for a directory
has_entrypoint(t, path) ==
  IF path.dir = examples_path
  THEN t.apps[path.name] = "valid"
  ELSE IF path.name = <<>> THEN t.root_valid ELSE t.suites[path.name] = "valid"

\* (mutation of is_valid: the entrypoint script is not looked for)
is_valid_any_directory(t, test_harness_path) == isdir(t, test_harness_path)

\* is_valid(test_harness_path)
is_valid(t, test_harness_path) ==
  IF ~isdir(t, test_harness_path)
  THEN FALSE
  ELSE has_entrypoint(t, test_harness_path)

\* extends_config(application_path)
extends_config(t, application_path) ==
  IF ~isdir(t, application_path)
  THEN FALSE
  ELSE t.config[application_path.name].file

\* yaml.safe_load gives None (is_null) for an empty document, else the mapping
None == [is_null |-> TRUE, map |-> <<>>]

\* load_circle_config(application_path)
load_circle_config(t, application_path) ==
  IF isdir(t, application_path) /\ t.config[application_path.name].file
  THEN [is_null |-> t.config[application_path.name].is_null,
        map |-> t.config[application_path.name].map]
  ELSE None

\* app_and_name_from_path: the absolute path (a trailing separator dropped)
\* and its base name
app_and_name_from_path(test_harness_path) ==
  IF test_harness_path.name = <<>>
  THEN <<join(<<>>, test_harness_path.dir), test_harness_path.dir>>
  ELSE <<test_harness_path, test_harness_path.name>>

(***************************************************************************)
(* The version-control tool, as the two shell commands see it              *)
(***************************************************************************)
\* what git prints on a checkout.  The fixed texts are shortened to their
\* first word; the lines, blank lines included, are git's, and so is the
\* subject of the commit in the lines that quote it.
already_msg == <<"A", "l", "r", "e", "a", "d", "y", "\n">>
switched_msg == <<"S", "w", "i", "t", "c", "h", "e", "d", "\n">>
\* 'Previous HEAD position was <sha> <subject>'
previous_msg(subj) == <<"P", "r", "e", "v", "i", "o", "u", "s", " ">> \o subj \o <<"\n">>
\* 'HEAD is now at <sha> <subject>'
now_at_msg(subj) == <<"H", "E", "A", "D", " ">> \o subj \o <<"\n">>
\* the advice on a detached HEAD: seventeen lines, seven of them blank
advice_msg ==
  lines(<<<<"N", "o", "t", "e", ":">>, <<>>,
          <<"Y", "o", "u">>, <<"c", "h", "a", "n", "g", "e", "s">>, <<"s", "t", "a", "t", "e">>, <<>>,
          <<"I", "f">>, <<"d", "o">>, <<>>,
          <<" ", " ", "g", "i", "t">>, <<>>,
          <<"O", "r">>, <<>>,
          <<" ", " ", "g", "i", "t">>, <<>>,
          <<"T", "u", "r", "n">>, <<>>>>)
\* 'M<tab><file>': the locally modified file a successful checkout carries over
modified_msg == <<"M", "\t", "f", "\n">>
\* a refusal: "error: pathspec '<version>' did not match ...", for a version
\* that is no revision of the repository
pathspec_msg(version) ==
  <<"e", "r", "r", "o", "r", ":", " ", "p", "a", "t", "h", "s", "p", "e", "c", " ", "'">>
    \o version \o <<"'", "\n">>
\* a refusal: the checkout would overwrite an untracked file
untracked_msg ==
  lines(<<<<"e", "r", "r", "o", "r", ":", " ", "T", "h", "e">>, <<"\t", "u">>,
          <<"P", "l", "e", "a", "s", "e">>, <<"A", "b", "o", "r", "t", "i", "n", "g">>>>)
\* a refusal: the checkout would overwrite the local modification
overwritten_msg ==
  lines(<<<<"e", "r", "r", "o", "r", ":", " ", "Y", "o", "u", "r">>, <<"\t", "f">>,
          <<"P", "l", "e", "a", "s", "e">>, <<"A", "b", "o", "r", "t", "i", "n", "g">>>>)

\* two revisions name one commit
same_commit(g, a, b) ==
  a = b \/ ({a, b} \subseteq g.tip_tags \cup {main_branch})

\* stderr of a successful `git checkout version` from the revision h: nothing
\* for an empty argument; for the branch, one line when already on it, and
\* when leaving a detached HEAD the position left (if it is another commit)
\* and the switch; for a tag, the advice when leaving the branch, the position
\* left when leaving another commit detached, and the new position
checkout_msg(h, version, g) ==
  IF version = <<>> THEN <<>>
  ELSE IF version = main_branch
       THEN IF h = main_branch THEN already_msg
            ELSE (IF same_commit(g, h, version) THEN <<>> ELSE previous_msg(g.subject[h]))
                   \o switched_msg
       ELSE IF h = main_branch THEN advice_msg \o now_at_msg(g.subject[version])
            ELSE (IF same_commit(g, h, version) THEN <<>> ELSE previous_msg(g.subject[h]))
                   \o now_at_msg(g.subject[version])

\* the revision `git checkout version` leaves the working tree at
checkout_head(h, fail, version) ==
  IF version \in fail \/ version = <<>> \/ version \notin Revs THEN h ELSE version

checkout_succeeds(fail, version) ==
  version = <<>> \/ (version \in Revs /\ version \notin fail)

\* what ls prints when the directory is missing
ls_missing_msg == <<"l", "s", ":", " ", "c", "a", "n", "n", "o", "t", "\n">>

\* stdout and stderr of ls test_suites_path, on the content t
ls_test_suites(t) ==
  IF ~test_exists(t) THEN ls_missing_msg
  ELSE lines(SelectSeq(SuitePool, LAMBDA n : t.suites[n] # "none"))
         \o (IF t.root_valid THEN entrypoint_name \o <<"\n">> ELSE <<>>)

\* stdout and stderr of `git checkout {version} && ls {test_suites_path}`, as
\* the pipe of subprocess.getoutput receives them: git's messages, the list
\* of locally modified files, the listing.  g is the state of the repository:
\* the versions git refuses, the subjects of the tagged commits, the tags on
\* the tip of main, the local change
checkout_and_ls(tr, h, g, version) ==
  IF checkout_succeeds(g.failing, version)
  THEN checkout_msg(h, version, g)
         \o (IF g.local_change THEN modified_msg ELSE <<>>)
         \o ls_test_suites(tr[checkout_head(h, g.failing, version)])
  ELSE IF version \notin Revs THEN pathspec_msg(version)
       ELSE IF g.local_change THEN overwritten_msg ELSE untracked_msg

\* stdout of `git tag -l | grep -E -w regex`
tag_listing(matched) == lines(matched)

(***************************************************************************)
(* VersionSource                                                           *)
(***************************************************************************)
\* get_git_tags, on the text tags that subprocess.getoutput returned
get_git_tags(tags) == split(strip(tags), "\n")

\* list_test_suites_for_version, on the text that subprocess.getoutput returned
list_test_suites_for_version(output) ==
  IF contains(strip(output), error_marker)
  THEN <<>>
  ELSE split(strip(output), "\n")

(***************************************************************************)
(* MatrixBuilder                                                           *)
(***************************************************************************)
\* the f-string of line 140
job_name(app_name, suite_name, version) ==
  app_name \o <<" ", "(">> \o suite_name
    \o <<" ", "t", "e", "s", "t", " ", "s", "u", "i", "t", "e", " ", ",", " ", "v", "e", "r", "s", "i", "o", "n", ":", " ">>
    \o version \o <<")">>

\* lines 133-141: the descriptor of one (application, suite, version) triple
new_example(app, suite_path, version) ==
  LET app_path == app_and_name_from_path(app)[1]
      app_name == app_and_name_from_path(app)[2]
      suite_name == app_and_name_from_path(suite_path)[2]
  IN  [example_app_path |-> app_path, test_suite_name |-> suite_name,
       example_app_name |-> app_name, test_suite_path |-> suite_path,
       bb_version |-> version,
       name |-> job_name(app_name, suite_name, version)]

\* (mutation of suite_entries: each entry is put in front of the accumulator)
RECURSIVE suite_entries_prepending(_, _, _, _)
suite_entries_prepending(t, app, version, suites_for_version) ==
  IF suites_for_version = <<>>
  THEN <<>>
  ELSE LET suite == Head(suites_for_version)
           suite_path == join(test_suites_path, suite)
           rest == suite_entries_prepending(t, app, version, Tail(suites_for_version))
       IN  IF ~exists(t, suite_path) \/ ~is_valid(t, suite_path)
           THEN rest
           ELSE rest \o <<[test_example |-> new_example(app, suite_path, version)]>>

\* lines 127-142: the entries one (application, version) pair appends, on the
\* content t the checkout left in the working tree
RECURSIVE suite_entries(_, _, _, _)
suite_entries(t, app, version, suites_for_version) ==
  IF suites_for_version = <<>>
  THEN <<>>
  ELSE LET suite == Head(suites_for_version)
           suite_path == join(test_suites_path, suite)
           rest == suite_entries(t, app, version, Tail(suites_for_version))
       IN  IF ~exists(t, suite_path) \/ ~is_valid(t, suite_path)
           THEN rest
           ELSE <<[test_example |-> new_example(app, suite_path, version)]>> \o rest

\* itertools.product(xs, ys)
product(xs, ys) ==
  [k \in 1..(Len(xs) * Len(ys)) |->
     <<xs[((k - 1) \div Len(ys)) + 1], ys[((k - 1) % Len(ys)) + 1]>>]

\* lines 122-142: one iteration of the loop of list_test_executions, from the
\* working tree at h: the entries appended, the call of
\* list_test_suites_for_version made (if any) and
\* the revision the working tree is left at
visit(tr, h, g, app, version) ==
  IF ~is_valid(tr[h], app)
  THEN [head |-> h, entries |-> <<>>, calls |-> <<>>]
  ELSE LET h2 == checkout_head(h, g.failing, version)
           text == getoutput(checkout_and_ls(tr, h, g, version))
           suites_for_version == list_test_suites_for_version(text)
       IN  [head |-> h2,
            entries |-> suite_entries(tr[h2], app, version, suites_for_version),
            calls |-> <<[app |-> app, version |-> version,
                         succeeded |-> checkout_succeeds(g.failing, version),
                         suites |-> suites_for_version]>>]

\* lines 119-143 as a whole: the loop over the remaining pairs ps
RECURSIVE run_pairs(_, _, _, _, _)
run_pairs(tr, h, g, ps, acc) ==
  IF ps = <<>>
  THEN [head |-> h, test_executions |-> acc]
  ELSE LET v == visit(tr, h, g, Head(ps)[1], Head(ps)[2])
       IN  run_pairs(tr, v.head, g, Tail(ps), acc \o v.entries)

list_test_executions(tr, h, g, example_apps, versions) ==
  run_pairs(tr, h, g, product(example_apps, versions), <<>>)

(***************************************************************************)
(* ConfigExtender                                                          *)
(***************************************************************************)
\* dict.get(key, [])
get(map, key) == IF key \in DOMAIN map THEN map[key] ELSE <<>>

\* list.insert(index, x)
insert(list, index, x) ==
  LET k == IF index < Len(list) THEN index ELSE Len(list)
  IN  SubSeq(list, 1, k) \o <<x>> \o SubSeq(list, k + 1, Len(list))

\* wrap_with_condition(steps, app_name)
wrap_with_condition(steps, app_name) ==
  [when |-> [condition |-> [equal |-> <<matrix_parameter, app_name>>],
             steps |-> steps]]

steps_of(config) == config.jobs.test_example.steps

\* (mutation of merge_with_custom_steps: 'after' is appended unchecked)
merge_without_after_check(config, custom_config, app_name) ==
  LET before_steps == get(custom_config, "before")
      after_steps == get(custom_config, "after")
      c1 == IF before_steps # <<>>
            THEN [config EXCEPT !.jobs.test_example.steps =
                    insert(@, 1, wrap_with_condition(before_steps, app_name))]
            ELSE config
  IN  [c1 EXCEPT !.jobs.test_example.steps =
         Append(@, wrap_with_condition(after_steps, app_name))]

\* (mutation of merge_with_custom_steps: 'before' goes in front of the first step)
merge_before_at_front(config, custom_config, app_name) ==
  LET before_steps == get(custom_config, "before")
      after_steps == get(custom_config, "after")
      c1 == IF before_steps # <<>>
            THEN [config EXCEPT !.jobs.test_example.steps =
                    insert(@, 0, wrap_with_condition(before_steps, app_name))]
            ELSE config
  IN  IF after_steps # <<>>
      THEN [c1 EXCEPT !.jobs.test_example.steps =
              Append(@, wrap_with_condition(after_steps, app_name))]
      ELSE c1

\* merge_with_custom_steps(circle_config, custom_config, app_name)
merge_with_custom_steps(config, custom_config, app_name) ==
  LET before_steps == get(custom_config, "before")
      after_steps == get(custom_config, "after")
      c1 == IF before_steps # <<>>
            THEN [config EXCEPT !.jobs.test_example.steps =
                    insert(@, 1, wrap_with_condition(before_steps, app_name))]
            ELSE config
  IN  IF after_steps # <<>>
      THEN [c1 EXCEPT !.jobs.test_example.steps =
              Append(@, wrap_with_condition(after_steps, app_name))]
      ELSE c1

\* lines 109-116: one iteration of the loop of append_custom_yamls, on the
\* content t of the working tree
append_custom_yaml(t, config, app) ==
  LET app_path == app_and_name_from_path(app)[1]
      app_name == app_and_name_from_path(app)[2]
      custom_config == load_circle_config(t, app_path)
  IN  IF ~extends_config(t, app_path)
      THEN config
      ELSE IF ~custom_config.is_null /\ DOMAIN custom_config.map # {}
           THEN merge_with_custom_steps(config, custom_config.map, app_name)
           ELSE config

\* append_custom_yamls(circle_config, example_apps)
RECURSIVE append_custom_yamls(_, _, _)
append_custom_yamls(t, config, example_apps) ==
  IF example_apps = <<>>
  THEN config
  ELSE append_custom_yamls(t, append_custom_yaml(t, config, Head(example_apps)),
                           Tail(example_apps))

(***************************************************************************)
(* Bounds and the inputs of a run                                          *)
(***************************************************************************)
MaxBaseSteps == 2
MaxCustomSteps == 1
MaxRuns == 2

BaseStepPool == <<[step |-> "checkout"], [step |-> "run_tests"], [step |-> "store"],
                  [step |-> "notify"]>>

RECURSIVE SeqsUpTo(_, _)
SeqsUpTo(S, n) ==
  IF n = 0 THEN {<<>>}
  ELSE SeqsUpTo(S, n - 1)
         \cup {Append(q, x) : q \in {r \in SeqsUpTo(S, n - 1) : Len(r) = n - 1}, x \in S}

\* the job list the base document carries before it is replaced
stale_jobs ==
  <<[test_example |->
       [example_app_path |-> join(examples_path, <<"o", "l", "d">>),
        test_suite_name |-> Smoke, example_app_name |-> <<"o", "l", "d">>,
        test_suite_path |-> join(test_suites_path, Smoke), bb_version |-> main_branch,
        name |-> <<"o", "l", "d">>]]>>

\* a base document whose shared job has the first n steps of the pool
BaseConfig(n) ==
  [workflows |-> [test_everything |-> [jobs |-> stale_jobs]],
   jobs |-> [test_example |-> [steps |-> SubSeq(BaseStepPool, 1, n)]]]

\* circle_config.yml of an application: no file, an empty file, a mapping
NoFile == [file |-> FALSE, is_null |-> TRUE, map |-> <<>>]
EmptyFile == [file |-> TRUE, is_null |-> TRUE, map |-> <<>>]
MapFile(m) == [file |-> TRUE, is_null |-> FALSE, map |-> m]
\* the steps an application names in its circle_config.yml
CustomStepsOf(a) == IF a = App1 THEN {[run |-> "setup"]} ELSE {[run |-> "cleanup"]}
OverrideMaps(a) ==
  UNION {[K -> SeqsUpTo(CustomStepsOf(a), MaxCustomSteps)] : K \in SUBSET {"before", "after"}}
OverrideFiles(a) == {NoFile, EmptyFile} \cup {MapFile(m) : m \in OverrideMaps(a)}

FixedOverrides ==
  [a \in AppNames |->
     IF a = App1
     THEN MapFile([k \in {"before", "after"} |->
                     IF k = "before" THEN <<[run |-> "setup"]>> ELSE <<[run |-> "cleanup"]>>])
     ELSE NoFile]

\* the contents of test/ a revision may have
SuiteShapes ==
  {[n \in SuiteNames |-> "none"],
   [n \in SuiteNames |-> IF n = Smoke THEN "valid" ELSE "none"],
   [n \in SuiteNames |-> IF n = Smoke THEN "dir" ELSE "valid"],
   [n \in SuiteNames |-> "valid"]}

\* subjects of a tagged commit, one of them quoting an error
PlainSubject == <<"v", "1">>
ErrorSubject == <<"f", "i", "x", " ", "e", "r", "r", "o", "r", ":", " ", "t", "y", "p", "o">>

\* the state of the repository the git commands of the run see
git ==
  [failing |-> failing, subject |-> subject, tip_tags |-> tip_tags,
   local_change |-> local_change]

ProgramInit ==
  /\ start_head = head
  /\ pc = "load"
  /\ circle_config = BaseConfig(0)
  /\ available_examples = <<>>
  /\ available_versions = <<>>
  /\ pairs = <<>>
  /\ i = 1
  /\ test_executions = <<>>
  /\ calls = <<>>
  /\ j = 1
  /\ generated = BaseConfig(0)
  /\ run = 1
  /\ previous = BaseConfig(0)

\* repositories whose revisions differ in applications and suites
InitMatrix ==
  /\ \E a \in [Revs -> [AppNames -> EntryStates]], su \in [Revs -> SuiteShapes] :
       tree = [r \in Revs |->
                 [apps |-> a[r], suites |-> su[r], root_valid |-> FALSE,
                  config |-> FixedOverrides]]
  /\ tags_matched \in {SubSeq(TagPool, 1, k) : k \in 0..Len(TagPool)}
  /\ head \in Revs
  /\ tip_tags \in {T \in SUBSET TagNames : \A v \in T : tree[v] = tree[main_branch]}
  \* git refuses a checkout that would overwrite a file: never the checkout of
  \* the commit it is at
  /\ failing \in {F \in SUBSET (Revs \ {head}) :
                    Cardinality(F) <= 1 /\ (tip_tags # {} => F = {})}
  /\ subject \in [TagNames -> {PlainSubject, ErrorSubject}]
  /\ local_change \in BOOLEAN
  /\ iterdir_order \in IterdirOrders
  /\ base = BaseConfig(2)
  /\ ProgramInit

\* repositories whose applications differ in their circle_config.yml, with or
\* without an entrypoint script in the test-suites root itself
InitExtend ==
  /\ \E a \in {[n \in AppNames |-> "valid"],
               [n \in AppNames |-> IF n = App1 THEN "dir" ELSE "valid"]},
        c \in {f \in [AppNames -> UNION {OverrideFiles(n) : n \in AppNames}] :
                \A n \in AppNames : f[n] \in OverrideFiles(n)},
        rv \in BOOLEAN :
       tree = [r \in Revs |->
                 [apps |-> a, suites |-> [n \in SuiteNames |-> IF n = Smoke THEN "valid" ELSE "none"],
                  root_valid |-> rv, config |-> c]]
  /\ tags_matched = TagPool
  /\ failing = {}
  /\ subject = [v \in TagNames |-> PlainSubject]
  /\ tip_tags = {}
  /\ local_change = FALSE
  /\ iterdir_order \in IterdirOrders
  /\ base \in {BaseConfig(n) : n \in 0..MaxBaseSteps}
  /\ head = main_branch
  /\ ProgramInit

Init == InitMatrix \/ InitExtend

(***************************************************************************)
(* PipelineAssembler: the script, step by step                             *)
(***************************************************************************)
\* lines 145-146
LoadBase ==
  /\ pc = "load"
  /\ circle_config' = base
  /\ start_head' = head
  /\ pc' = "discover"
  /\ UNCHANGED <<env, head, available_examples, available_versions, pairs, i,
                 test_executions, calls, j, generated, run, previous>>

\* line 148
Discover ==
  /\ pc = "discover"
  /\ examples_exists(tree[head])
  /\ available_examples' =
       SelectSeq([k \in 1..Len(iterdir_order) |-> join(examples_path, iterdir_order[k])],
                 LAMBDA name : isdir(tree[head], name))
  /\ pc' = "tags"
  /\ UNCHANGED <<env, head, start_head, circle_config, available_versions, pairs, i,
                 test_executions, calls, j, generated, run, previous>>

\* line 148: examples/ is missing, iterdir raises FileNotFoundError and the
\* script ends without writing generated.yml
DiscoverFails ==
  /\ pc = "discover"
  /\ ~examples_exists(tree[head])
  /\ pc' = "crashed"
  /\ UNCHANGED <<env, head, start_head, circle_config, available_examples,
                 available_versions, pairs, i, test_executions, calls, j, generated,
                 run, previous>>

\* lines 149-150
GetVersions ==
  /\ pc = "tags"
  /\ available_versions' =
       Append(get_git_tags(getoutput(tag_listing(tags_matched))), main_branch)
  /\ pc' = "call"
  /\ UNCHANGED <<env, head, start_head, circle_config, available_examples, pairs, i,
                 test_executions, calls, j, generated, run, previous>>

\* lines 119-121: list_test_executions is entered
BeginMatrix ==
  /\ pc = "call"
  /\ test_executions' = <<>>
  /\ calls' = <<>>
  /\ pairs' = product(available_examples, available_versions)
  /\ i' = 1
  /\ pc' = "matrix"
  /\ UNCHANGED <<env, head, start_head, circle_config, available_examples,
                 available_versions, j, generated, run, previous>>

\* lines 121-124: the application of the pair is not valid
VisitSkip ==
  /\ pc = "matrix"
  /\ i <= Len(pairs)
  /\ ~is_valid(tree[head], pairs[i][1])
  /\ i' = i + 1
  /\ UNCHANGED <<env, head, start_head, pc, circle_config, available_examples,
                 available_versions, pairs, test_executions, calls, j, generated,
                 run, previous>>

\* lines 121-142: the application of the pair is valid
VisitPair ==
  /\ pc = "matrix"
  /\ i <= Len(pairs)
  /\ is_valid(tree[head], pairs[i][1])
  /\ LET v == visit(tree, head, git, pairs[i][1], pairs[i][2])
     IN  /\ head' = v.head
         /\ test_executions' = test_executions \o v.entries
         /\ calls' = calls \o v.calls
  /\ i' = i + 1
  /\ UNCHANGED <<env, start_head, pc, circle_config, available_examples,
                 available_versions, pairs, j, generated, run, previous>>

\* lines 143 and 151
InstallJobs ==
  /\ pc = "matrix"
  /\ i > Len(pairs)
  /\ circle_config' = [circle_config EXCEPT !.workflows.test_everything.jobs = test_executions]
  /\ j' = 1
  /\ pc' = "extend"
  /\ UNCHANGED <<env, head, start_head, available_examples, available_versions, pairs, i,
                 test_executions, calls, generated, run, previous>>

\* lines 108-112: the application has no circle_config.yml
AppendSkip ==
  /\ pc = "extend"
  /\ j <= Len(available_examples)
  /\ ~extends_config(tree[head], app_and_name_from_path(available_examples[j])[1])
  /\ j' = j + 1
  /\ UNCHANGED <<env, head, start_head, pc, circle_config, available_examples,
                 available_versions, pairs, i, test_executions, calls, generated,
                 run, previous>>

\* lines 108-116: the application has a circle_config.yml
AppendCustom ==
  /\ pc = "extend"
  /\ j <= Len(available_examples)
  /\ extends_config(tree[head], app_and_name_from_path(available_examples[j])[1])
  /\ circle_config' = append_custom_yaml(tree[head], circle_config, available_examples[j])
  /\ j' = j + 1
  /\ UNCHANGED <<env, head, start_head, pc, available_examples, available_versions, pairs,
                 i, test_executions, calls, generated, run, previous>>

\* lines 117 and 152-156
Dump ==
  /\ pc = "extend"
  /\ j > Len(available_examples)
  /\ generated' = circle_config
  /\ pc' = "done"
  /\ UNCHANGED <<env, head, start_head, circle_config, available_examples,
                 available_versions, pairs, i, test_executions, calls, j, run,
                 previous>>

\* the script is run again on the working tree the run before left; the file
\* system may list examples/ in another order (the checkouts rewrote it)
Rerun ==
  /\ pc = "done"
  /\ run < MaxRuns
  /\ run' = run + 1
  /\ previous' = generated
  /\ iterdir_order' \in IterdirOrders
  /\ pc' = "load"
  /\ UNCHANGED <<tree, tags_matched, failing, subject, tip_tags, local_change, base,
                 head, start_head, circle_config, available_examples,
                 available_versions, pairs, i, test_executions, calls, j, generated>>

Next ==
  \/ LoadBase
  \/ Discover
  \/ DiscoverFails
  \/ GetVersions
  \/ BeginMatrix
  \/ VisitSkip
  \/ VisitPair
  \/ InstallJobs
  \/ AppendSkip
  \/ AppendCustom
  \/ Dump

NextRerun == Next \/ Rerun

\* one run of the script
Spec == Init /\ [][Next]_vars

\* the script run MaxRuns times in a row on the same repository
SpecRerun == InitMatrix /\ [][NextRerun]_vars

(***************************************************************************)
(* Properties                                                              *)
(***************************************************************************)
MatrixBuilt == pc \in {"extend", "done"}
VersionsKnown == pc \in {"call", "matrix", "extend", "done"}
Descriptor(k) == test_executions[k].test_example
Discovered(A) ==
  \E k \in 1..Len(available_examples) : available_examples[k] = join(examples_path, A)
IsVersion(V) == \E k \in 1..Len(available_versions) : available_versions[k] = V

\* A has the entrypoint script at every revision of the repository
AlwaysValid(A) == \A r \in Revs : tree[r].apps[A] = "valid"
\* A has the entrypoint script at no revision of the repository
NeverValid(A) == \A r \in Revs : tree[r].apps[A] # "valid"

\* the listing of the test-suites root at version V has the valid suite S
\* (an empty version string lists whatever revision is checked out)
YieldsValidSuite(V, S) ==
  IF V = <<>>
  THEN \A r \in Revs : tree[r].suites[S] = "valid"
  ELSE V \in Revs /\ V \notin failing /\ tree[V].suites[S] = "valid"

EntriesFor(A, V, S) ==
  {k \in 1..Len(test_executions) :
     /\ Descriptor(k).example_app_name = A
     /\ Descriptor(k).test_suite_name = S
     /\ Descriptor(k).bb_version = V}

ExpectedName(A, S, V) ==
  A \o <<" ", "(">> \o S \o <<" ", "t", "e", "s", "t", " ", "s", "u", "i", "t", "e", " ", ",", " ", "v", "e", "r", "s", "i", "o", "n", ":", " ">> \o V \o <<")">>

\* C1: when list_test_executions has returned, for every application A and
\* version V of its inputs such that A is valid and the listing at V yields a
\* valid suite S, exactly one entry has app name A, suite name S and
\* bb-version V, and its name is "<A> (<S> test suite , version: <V>)".
C1_CompleteAndNamed ==
  MatrixBuilt =>
    \A A \in AppNames, S \in SuiteNames :
      \A v \in 1..Len(available_versions) :
        LET V == available_versions[v]
        IN  (Discovered(A) /\ AlwaysValid(A) /\ YieldsValidSuite(V, S)) =>
              /\ Cardinality(EntriesFor(A, V, S)) = 1
              /\ \A k \in EntriesFor(A, V, S) :
                   Descriptor(k).name = ExpectedName(A, S, V)

\* C2: every entry of list_test_executions for (A, V, S) has A valid at
\* version V and S valid at version V.
C2_ValidAtVersion ==
  \A k \in 1..Len(test_executions) :
    LET d == Descriptor(k)
    IN  d.bb_version \in Revs =>
          /\ is_valid(tree[d.bb_version], d.example_app_path)
          /\ is_valid(tree[d.bb_version], d.test_suite_path)

\* C3: an application whose directory lacks test_entrypoint.sh is referred to
\* by no entry of list_test_executions, by path or by name.
C3_InvalidExcluded ==
  \A A \in AppNames :
    NeverValid(A) =>
      \A k \in 1..Len(test_executions) :
        /\ Descriptor(k).example_app_name # A
        /\ Descriptor(k).example_app_path # join(examples_path, A)

\* an application without the entrypoint was skipped for two versions while
\* the other application got jobs
C3_Witness ==
  /\ pc = "done"
  /\ tags_matched = TagPool
  /\ test_executions # <<>>
  /\ \E A \in AppNames : Discovered(A) /\ NeverValid(A) /\ tree[head].apps[A] = "dir"

\* C4: a second run of the script, on the working tree the first run left,
\* dumps the document the first run dumped.
C4_Idempotent == (pc = "done" /\ run > 1) => generated = previous

\* C5: when no tag matches, the version sequence of the assembler is the
\* floating branch alone.
C5_OnlyMain ==
  (VersionsKnown /\ tags_matched = <<>>) => available_versions = <<main_branch>>

\* the applications append_custom_yamls has processed so far
Processed ==
  IF pc = "done" THEN available_examples
  ELSE IF pc = "extend" THEN SubSeq(available_examples, 1, j - 1) ELSE <<>>

\* the mapping in the circle_config.yml of an application, as the working
\* tree has it while append_custom_yamls runs (empty without such a file)
OverrideOf(app) ==
  LET t == tree[head]
  IN  IF t.apps[app.name] # "none" /\ t.config[app.name].file /\ ~t.config[app.name].is_null
      THEN t.config[app.name].map
      ELSE <<>>
BeforeOf(app) == IF "before" \in DOMAIN OverrideOf(app) THEN OverrideOf(app)["before"] ELSE <<>>
AfterOf(app) == IF "after" \in DOMAIN OverrideOf(app) THEN OverrideOf(app)["after"] ELSE <<>>

ExpectedGuard(steps, A) ==
  [when |-> [condition |-> [equal |-> <<"<< parameters.example-app-name >>", A>>],
             steps |-> steps]]

RECURSIVE BeforeBlocksReversed(_)
BeforeBlocksReversed(apps) ==
  IF apps = <<>> THEN <<>>
  ELSE BeforeBlocksReversed(Tail(apps))
         \o (IF BeforeOf(Head(apps)) # <<>>
             THEN <<ExpectedGuard(BeforeOf(Head(apps)), Head(apps).name)>> ELSE <<>>)

RECURSIVE AfterBlocks(_)
AfterBlocks(apps) ==
  IF apps = <<>> THEN <<>>
  ELSE (IF AfterOf(Head(apps)) # <<>>
        THEN <<ExpectedGuard(AfterOf(Head(apps)), Head(apps).name)>> ELSE <<>>)
         \o AfterBlocks(Tail(apps))

\* C6: with a base step list of at least one element, after
\* append_custom_yamls has processed any sequence of applications the shared
\* step list is the first base step, the guarded 'before' blocks in reverse
\* discovery order, the other base steps, and the guarded 'after' blocks in
\* discovery order.
C6_AccumulationOrder ==
  (pc \in {"extend", "done"} /\ Len(steps_of(base)) >= 1) =>
    steps_of(circle_config) =
      <<Head(steps_of(base))>> \o BeforeBlocksReversed(Processed)
        \o Tail(steps_of(base)) \o AfterBlocks(Processed)

\* two applications, each with 'before' and 'after' steps, were merged into a
\* base list of two steps
C6_Witness ==
  /\ pc = "done"
  /\ Len(steps_of(base)) = 2
  /\ Len(available_examples) = 2
  /\ \A k \in 1..2 : BeforeOf(available_examples[k]) # <<>> /\ AfterOf(available_examples[k]) # <<>>
  /\ BeforeOf(available_examples[1]) # BeforeOf(available_examples[2])

GuardedOn(A) ==
  {k \in 1..Len(steps_of(circle_config)) :
     /\ "when" \in DOMAIN steps_of(circle_config)[k]
     /\ steps_of(circle_config)[k].when.condition.equal[2] = A}
WithBefore == {k \in 1..Len(available_examples) : BeforeOf(available_examples[k]) # <<>>}
WithAfter == {k \in 1..Len(available_examples) : AfterOf(available_examples[k]) # <<>>}

\* C7: after assembly the shared step list has the base length plus one
\* block per application with a non-empty 'before' plus one per application
\* with a non-empty 'after'; the blocks guarded on an application's name are
\* its 'before' block (if any) and its 'after' block (if any), however many
\* job entries the application has.
C7_OneBlockPerApplication ==
  pc = "done" =>
    /\ Len(steps_of(circle_config)) =
         Len(steps_of(base)) + Cardinality(WithBefore) + Cardinality(WithAfter)
    /\ \A A \in AppNames :
         LET app == join(examples_path, A)
         IN  IF Discovered(A)
             THEN /\ Cardinality(GuardedOn(A)) =
                       (IF BeforeOf(app) # <<>> THEN 1 ELSE 0)
                         + (IF AfterOf(app) # <<>> THEN 1 ELSE 0)
                  /\ \A k \in GuardedOn(A) :
                       steps_of(circle_config)[k].when.steps \in {BeforeOf(app), AfterOf(app)}
             ELSE GuardedOn(A) = {}

\* an application with only 'after' steps and with jobs for two versions got
\* one block
C7_Witness ==
  /\ pc = "done"
  /\ \E A \in AppNames :
       /\ Discovered(A)
       /\ BeforeOf(join(examples_path, A)) = <<>>
       /\ AfterOf(join(examples_path, A)) # <<>>
       /\ Cardinality(GuardedOn(A)) = 1
       /\ EntriesFor(A, V1, Smoke) # {} /\ EntriesFor(A, main_branch, Smoke) # {}

NotFailing(executions) ==
  SelectSeq(executions, LAMBDA e : e.test_example.bb_version \notin failing)

\* C8: a version whose checkout fails contributes no entry, and the entries of
\* the other (application, version) pairs are those of the same build with no
\* failing checkout.
C8_FailureIsolated ==
  MatrixBuilt =>
    /\ \A k \in 1..Len(test_executions) : Descriptor(k).bb_version \notin failing
    /\ test_executions =
         NotFailing(list_test_executions(tree, start_head, [git EXCEPT !.failing = {}],
                                         available_examples,
                                         available_versions).test_executions)

AppIndex(k) ==
  CHOOSE a \in 1..Len(available_examples) :
    available_examples[a] = Descriptor(k).example_app_path
VersionIndex(k) ==
  CHOOSE v \in 1..Len(available_versions) : available_versions[v] = Descriptor(k).bb_version
ListingOf(k) ==
  (CHOOSE c \in {calls[n] : n \in 1..Len(calls)} :
     c.app = Descriptor(k).example_app_path /\ c.version = Descriptor(k).bb_version).suites

GenerationOrder ==
  \A l \in 1..Len(test_executions) : \A k \in 1..(l - 1) :
    LET ak == AppIndex(k)
        al == AppIndex(l)
        vk == VersionIndex(k)
        vl == VersionIndex(l)
        listing == ListingOf(k)
    IN  \/ ak < al
        \/ ak = al /\ vk < vl
        \/ /\ ak = al /\ vk = vl
           /\ \E q \in 1..Len(listing) : \E p \in 1..(q - 1) :
                /\ listing[p] = Descriptor(k).test_suite_path.name
                /\ listing[q] = Descriptor(l).test_suite_path.name

AppendOnly ==
  /\ Len(test_executions') >= Len(test_executions)
  /\ SubSeq(test_executions', 1, Len(test_executions)) = test_executions

\* C9: the entries of list_test_executions are in application-outer,
\* version-inner, suite-innermost order, and the sequence only ever grows at
\* its end.
C9_GenerationOrder == [](GenerationOrder) /\ [][AppendOnly]_vars

\* two applications got entries for two versions and two suites each
C9_Witness ==
  /\ pc = "done"
  /\ Len(test_executions) = 8
  /\ \A k \in 1..8 : Descriptor(k).test_suite_name \in SuiteNames

\* the working tree moves only inside list_test_suites_for_version, called for
\* a pair whose application has the entrypoint when the pair is visited
HeadMovesInListing ==
  head' # head =>
    /\ pc = "matrix" /\ i <= Len(pairs)
    /\ tree[head].apps[pairs[i][1].name] = "valid"
    /\ Len(calls') = Len(calls) + 1

AllSucceeded == \A n \in 1..Len(calls) : calls[n].succeeded

EndsAtMain == (MatrixBuilt /\ calls # <<>> /\ AllSucceeded) => head = main_branch

\* C10: the working tree moves only inside list_test_suites_for_version,
\* reached for pairs whose application is valid when visited; if a checkout
\* was made and all succeeded, the tree is at main when list_test_executions
\* has returned.
C10_EndsAtMain == [][HeadMovesInListing /\ EndsAtMain']_vars

=============================================================================
